---- MODULE Spec2Model ----
(***************************************************************************)
(* Model of the libp2p chat example: every node runs main() of             *)
(* src/main.rs over the swarm built by build_swarm() of src/lib.rs: a      *)
(* gossipsub behaviour (signed messages, strict validation, content        *)
(* addressed message ids, 10 s heartbeat) combined with mDNS discovery.    *)
(* The gossipsub and mDNS behaviours are library code; the model gives     *)
(* the calls and the configuration of the source the behaviour the         *)
(* library gives them.                                                     *)
(***************************************************************************)
EXTENDS Integers, Sequences, FiniteSets, TLC

\* ------------------------------------------------------------------ bounds
\* Width of the modelled hash value (the real one has 64 bits).
HashMod == 65536
\* Events from outside in one behaviour: lines typed, mDNS events, frames and
\* unsubscriptions of foreign peers, connections closed, cache entries expired.
MaxEvents == 2
\* The same, in the behaviours of two programs on one segment.
MaxPairEvents == 4
\* Messages and GRAFT/PRUNE control messages in flight, over all connections.
MaxInFlight == 2
\* Lines, read errors and the end of the input waiting unread on one terminal.
MaxTyped == 2

\* --------------------------------------------------------------- constants
\* The peers of the local network. A peer either runs the program or is a foreign
\* gossipsub peer (pc = "foreign"), which may send whatever a peer can send.
Nodes == {"A", "B", "C"}
\* "test-topic" is the topic of main(); "other" is a topic nobody subscribes to.
topic == "test-topic"
Topics == {topic, "other"}
\* The lines typed at the terminals, as bytes: "hello" and "dup".
hello == <<104, 101, 108, 108, 111>>
dupLine == <<100, 117, 112>>
Lines == {hello, dupLine}
\* gossipsub::ConfigBuilder::default(): the mesh watermarks.
mesh_n_low == 5
mesh_n == 6
mesh_n_high == 12

VARIABLES
    pc,               \* pc[n]: "start" (before main), "loop", "exit" (main returned Err),
                      \*        "off" (not run), "foreign" (not the program)
    explicit_peers,   \* explicit_peers[n]: gossipsub's explicit peers of n
    peer_topics,      \* peer_topics[n]: the connected peers n knows as subscribed to topic
    mesh,             \* mesh[n]: the mesh of n for topic
    duplicate_cache,  \* duplicate_cache[n]: the message ids n has seen and not yet expired
    seqno,            \* seqno[n]: messages built by publish on n
    conn,             \* the open connections, each a set of two nodes
    net,              \* frames in flight
    delivered,        \* delivered[n]: the Event::Message events main() has logged
    lastDisc,         \* lastDisc[n][p]: the last mDNS event of n that listed p
    expiries,         \* expiries[n][id]: how many times id has expired from n's cache
    budget,           \* events from outside still to come
    heard,            \* the message frames the foreign peers have received
    stdin,            \* stdin[n]: what waits on the terminal of n, not yet read
    last              \* the step just taken

vars == <<pc, explicit_peers, peer_topics, mesh, duplicate_cache, seqno, conn, net,
          delivered, lastDisc, expiries, budget, heard, stdin, last>>

\* ----------------------------------------------------------------- helpers
Min(a, b) == IF a < b THEN a ELSE b

RECURSIVE HashBytes(_, _)
\* Hasher::write over the bytes of the payload, from state h.
HashBytes(h, data) ==
    IF data = <<>> THEN h
    ELSE HashBytes((h * 31 + Head(data)) % HashMod, Tail(data))

\* message.data.hash(&mut s); s.finish(): Vec<u8> hashes its length, then its bytes.
DefaultHasherFinish(data) == HashBytes(Len(data) % HashMod, data)

\* message_id_fn as the default of gossipsub makes it: from the author and the
\* sequence number of the message.
message_id_fn_SourceSeqno(message) ==
    ToString(HashBytes(message.seqno,
                       <<IF message.source = "A" THEN 65
                         ELSE IF message.source = "B" THEN 66 ELSE 67>>))

\* The message id of a message: the decimal string of the hash of its data only.
message_id_fn(message) == ToString(DefaultHasherFinish(message.data))

\* MessageAuthenticity::Signed(key): the message carries its author and a signature
\* made with the author's key; the signature is modelled as the name of the signer.
Sign(n, data, tp, sq) ==
    [kind |-> "msg", source |-> n, sig |-> n, seqno |-> sq, data |-> data, topic |-> tp]

\* The ids of the messages of the model.
Ids == {message_id_fn(Sign(n, d, topic, q)) : n \in Nodes, d \in Lines, q \in 0..MaxEvents}

\* ValidationMode::Strict: the signature must be the author's.
ValidSignature(message) == message.sig = message.source

Connected(a, b) == {a, b} \in conn

ConnectedPeers(n) == {p \in Nodes \ {n} : Connected(n, p)}

\* A frame: a message or a control message travelling from one peer to another.
Frame(from, to, body) == [from |-> from, to |-> to, body |-> body]

Control(kind) == [kind |-> kind]

SentBy(n, frames) == {f \in frames : f.from = n}


\* The peers a published message is sent to (flood publishing, the default): every
\* connected peer known to be subscribed to the topic.
PublishRecipients(n) == {p \in ConnectedPeers(n) : p \in peer_topics[n]}

\* ForwardRecipients that does not leave out the peer the message came from.
ForwardRecipients_Echo(n, message, from) ==
    {p \in ConnectedPeers(n) :
        /\ p # message.source
        /\ p \in peer_topics[n]
        /\ (p \in explicit_peers[n] \/ p \in mesh[n])}

\* forward_msg: the explicit peers and the mesh peers subscribed to the topic, but
\* neither the peer the message came from nor its author.
ForwardRecipients(n, message, from) ==
    {p \in ConnectedPeers(n) :
        /\ p # from
        /\ p # message.source
        /\ p \in peer_topics[n]
        /\ (p \in explicit_peers[n] \/ p \in mesh[n])}

\* The frames carrying body from n to every peer of tos.
Frames(n, tos, body) == {Frame(n, p, body) : p \in tos}

RECURSIVE add_explicit_peers(_, _)
\* for (peer_id, _multiaddr) in list { gossipsub.add_explicit_peer(&peer_id) }
add_explicit_peers(set, list) ==
    IF list = <<>> THEN set
    ELSE add_explicit_peers(set \cup {Head(list)}, Tail(list))

\* remove_explicit_peers that stops after the first entry of the list.
remove_explicit_peers_first(set, list) ==
    IF list = <<>> THEN set ELSE set \ {Head(list)}

RECURSIVE remove_explicit_peers(_, _)
\* for (peer_id, _multiaddr) in list { gossipsub.remove_explicit_peer(&peer_id) }
remove_explicit_peers(set, list) ==
    IF list = <<>> THEN set
    ELSE remove_explicit_peers(set \ {Head(list)}, Tail(list))

Range(list) == {list[i] : i \in DOMAIN list}

\* The lists one mDNS event of n can carry: one or two entries, a peer possibly twice
\* (once for each of its addresses).
MdnsLists(n) ==
    {<<p>> : p \in Nodes \ {n}} \cup {<<p, q>> : p \in Nodes \ {n}, q \in Nodes \ {n}}


\* -------------------------------------------------------------------- Init
Init ==
    /\ pc = [n \in Nodes |-> IF n = "B" THEN "start" ELSE "foreign"]
    /\ explicit_peers = [n \in Nodes |-> {}]
    /\ peer_topics = [n \in Nodes |-> {}]
    /\ mesh = [n \in Nodes |-> {}]
    /\ duplicate_cache = [n \in Nodes |-> {}]
    /\ seqno = [n \in Nodes |-> 0]
    /\ conn = {}
    /\ net = {}
    /\ delivered = [n \in Nodes |-> <<>>]
    /\ lastDisc = [n \in Nodes |-> [p \in Nodes |-> "none"]]
    /\ expiries = [n \in Nodes |-> [i \in Ids |-> 0]]
    /\ budget = MaxEvents
    /\ heard = {}
    /\ stdin = [n \in Nodes |-> <<>>]
    /\ last = [op |-> "Init"]

\* ----------------------------------------------------------------- actions
\* main() up to the loop: build_swarm, subscribe, listen_on all succeed.
Start(n) ==
    /\ pc[n] = "start"
    /\ pc' = [pc EXCEPT ![n] = "loop"]
    /\ last' = [op |-> "Start"]
    /\ UNCHANGED <<explicit_peers, peer_topics, mesh, duplicate_cache, seqno, conn, net,
                   delivered, lastDisc, expiries, budget, heard, stdin>>

\* StartFail where main() ignores the error and enters the loop.
StartFail_Ignored(n) ==
    /\ pc[n] = "start"
    /\ pc' = [pc EXCEPT ![n] = "loop"]
    /\ last' = [op |-> "StartFail"]
    /\ UNCHANGED <<explicit_peers, peer_topics, mesh, duplicate_cache, seqno, conn, net,
                   delivered, lastDisc, expiries, budget, heard, stdin>>

\* main() up to the loop: one of the calls followed by `?` fails and main returns Err.
StartFail(n) ==
    /\ pc[n] = "start"
    /\ pc' = [pc EXCEPT ![n] = "exit"]
    /\ last' = [op |-> "StartFail"]
    /\ UNCHANGED <<explicit_peers, peer_topics, mesh, duplicate_cache, seqno, conn, net,
                   delivered, lastDisc, expiries, budget, heard, stdin>>

\* What stdin.next_line() yields: Ok(Some(line)), Ok(None) at the end of the input,
\* Err(e) for a read error (a line that is not UTF-8).
SomeLine(line) == [kind |-> "Some", data |-> line]
NoLine == [kind |-> "None", data |-> <<>>]
ErrLine == [kind |-> "Err", data |-> <<>>]

\* PublishResult without the lookup in the duplicate cache.
PublishResult_NoDuplicateCheck(n, id) ==
    IF PublishRecipients(n) = {} THEN "InsufficientPeers"
    ELSE "Ok"

\* The result of gossipsub.publish: Err(Duplicate) for an id in the duplicate cache,
\* Err(InsufficientPeers) when no peer is subscribed, else Ok(id).
PublishResult(n, id) ==
    IF id \in duplicate_cache[n] THEN "Duplicate"
    ELSE IF PublishRecipients(n) = {} THEN "InsufficientPeers"
    ELSE "Ok"

\* Publish that sends the message without recording its id in the duplicate cache.
Publish_NoRecord(n, line) ==
    LET message == Sign(n, line, topic, seqno[n])
        id == message_id_fn(message)
        recipients == PublishRecipients(n)
        result == PublishResult(n, id)
    IN  /\ pc[n] = "loop"
        /\ IF stdin[n] = <<>> THEN TRUE ELSE Head(stdin[n]) = SomeLine(line)
        /\ stdin' = [stdin EXCEPT ![n] = IF @ = <<>> THEN @ ELSE Tail(@)]
        /\ budget > 0
        /\ budget' = budget - 1
        /\ seqno' = [seqno EXCEPT ![n] = @ + 1]
        /\ IF result = "Ok"
           THEN /\ Cardinality(net) + Cardinality(recipients) <= MaxInFlight
                /\ net' = net \cup Frames(n, recipients, message)
           ELSE net' = net
        /\ last' = [op |-> "Publish", node |-> n, id |-> id, result |-> result]
        /\ UNCHANGED <<pc, explicit_peers, peer_topics, mesh, duplicate_cache, conn,
                       delivered, lastDisc, expiries, heard>>

\* Publish where main() returns the error of publish with `?` instead of logging it.
Publish_ErrorFatal(n, line) ==
    LET message == Sign(n, line, topic, seqno[n])
        id == message_id_fn(message)
        recipients == PublishRecipients(n)
        result == PublishResult(n, id)
    IN  /\ pc[n] = "loop"
        /\ IF stdin[n] = <<>> THEN TRUE ELSE Head(stdin[n]) = SomeLine(line)
        /\ stdin' = [stdin EXCEPT ![n] = IF @ = <<>> THEN @ ELSE Tail(@)]
        /\ budget > 0
        /\ budget' = budget - 1
        /\ seqno' = [seqno EXCEPT ![n] = @ + 1]
        /\ IF result = "Ok"
           THEN /\ Cardinality(net) + Cardinality(recipients) <= MaxInFlight
                /\ duplicate_cache' = [duplicate_cache EXCEPT ![n] = @ \cup {id}]
                /\ net' = net \cup Frames(n, recipients, message)
                /\ pc' = pc
           ELSE /\ UNCHANGED <<duplicate_cache, net>>
                /\ pc' = [pc EXCEPT ![n] = "exit"]
        /\ last' = [op |-> "Publish", node |-> n, id |-> id, result |-> result]
        /\ UNCHANGED <<explicit_peers, peer_topics, mesh, conn, delivered, lastDisc,
                       expiries, heard>>

\* The select branch of a line read from stdin (the first line waiting, or the line
\* that arrives while the loop waits): gossipsub.publish(topic, line); main() logs an
\* error and goes on.
Publish(n, line) ==
    LET message == Sign(n, line, topic, seqno[n])
        id == message_id_fn(message)
        recipients == PublishRecipients(n)
        result == PublishResult(n, id)
    IN  /\ pc[n] = "loop"
        /\ IF stdin[n] = <<>> THEN TRUE ELSE Head(stdin[n]) = SomeLine(line)
        /\ stdin' = [stdin EXCEPT ![n] = IF @ = <<>> THEN @ ELSE Tail(@)]
        /\ budget > 0
        /\ budget' = budget - 1
        /\ seqno' = [seqno EXCEPT ![n] = @ + 1]
        /\ IF result = "Ok"
           THEN /\ Cardinality(net) + Cardinality(recipients) <= MaxInFlight
                /\ duplicate_cache' = [duplicate_cache EXCEPT ![n] = @ \cup {id}]
                /\ net' = net \cup Frames(n, recipients, message)
           ELSE UNCHANGED <<duplicate_cache, net>>
        /\ last' = [op |-> "Publish", node |-> n, id |-> id, result |-> result]
        /\ UNCHANGED <<pc, explicit_peers, peer_topics, mesh, conn, delivered, lastDisc,
                       expiries, heard>>

\* The match arm of mdns::Event::Discovered(list).
MdnsDiscovered(n, list) ==
    /\ pc[n] = "loop"
    /\ budget > 0
    /\ \A p \in Range(list) : pc[p] \in {"loop", "foreign"}
    /\ explicit_peers' = [explicit_peers EXCEPT ![n] = add_explicit_peers(@, list)]
    /\ lastDisc' = [lastDisc EXCEPT ![n] =
                       [p \in Nodes |-> IF p \in Range(list) THEN "Discovered" ELSE @[p]]]
    /\ budget' = budget - 1
    /\ last' = [op |-> "Discovered", node |-> n]
    /\ UNCHANGED <<pc, peer_topics, mesh, duplicate_cache, seqno, conn, net, delivered,
                   expiries, heard, stdin>>

\* MdnsExpired that also takes the expired peers out of the mesh.
MdnsExpired_Prunes(n, list) ==
    /\ pc[n] = "loop"
    /\ budget > 0
    /\ \A p \in Range(list) : lastDisc[n][p] = "Discovered"
    /\ explicit_peers' = [explicit_peers EXCEPT ![n] = @ \ Range(list)]
    /\ mesh' = [mesh EXCEPT ![n] = @ \ Range(list)]
    /\ lastDisc' = [lastDisc EXCEPT ![n] =
                       [p \in Nodes |-> IF p \in Range(list) THEN "Expired" ELSE @[p]]]
    /\ budget' = budget - 1
    /\ last' = [op |-> "Expired", node |-> n]
    /\ UNCHANGED <<pc, peer_topics, duplicate_cache, seqno, conn, net, delivered,
                   expiries, heard, stdin>>

\* MdnsExpired that leaves the explicit flags for a later heartbeat to remove.
MdnsExpired_Deferred(n, list) ==
    /\ pc[n] = "loop"
    /\ budget > 0
    /\ \A p \in Range(list) : lastDisc[n][p] = "Discovered"
    /\ lastDisc' = [lastDisc EXCEPT ![n] =
                       [p \in Nodes |-> IF p \in Range(list) THEN "Expired" ELSE @[p]]]
    /\ budget' = budget - 1
    /\ last' = [op |-> "Expired", node |-> n]
    /\ UNCHANGED <<pc, explicit_peers, peer_topics, mesh, duplicate_cache, seqno, conn,
                   net, delivered, expiries, heard, stdin>>

\* The match arm of mdns::Event::Expired(list): mDNS expires peers it has discovered.
MdnsExpired(n, list) ==
    /\ pc[n] = "loop"
    /\ budget > 0
    /\ \A p \in Range(list) : lastDisc[n][p] = "Discovered"
    /\ explicit_peers' = [explicit_peers EXCEPT ![n] = remove_explicit_peers(@, list)]
    /\ lastDisc' = [lastDisc EXCEPT ![n] =
                       [p \in Nodes |-> IF p \in Range(list) THEN "Expired" ELSE @[p]]]
    /\ budget' = budget - 1
    /\ last' = [op |-> "Expired", node |-> n]
    /\ UNCHANGED <<pc, peer_topics, mesh, duplicate_cache, seqno, conn, net, delivered,
                   expiries, heard, stdin>>


\* Outcome without the lookup in the duplicate cache.
Outcome_NoDuplicateCheck(n, from, message) ==
    IF ~(message.sig = message.source) THEN "InvalidSignature"
    ELSE IF message.source = n THEN "SelfOrigin"
    ELSE IF message.topic # topic THEN "NotSubscribed"
    ELSE "Delivered"

\* Outcome without the validation of the signature (ValidationMode::Permissive).
Outcome_NoSignatureCheck(n, from, message) ==
    IF message.source = n THEN "SelfOrigin"
    ELSE IF message_id_fn(message) \in duplicate_cache[n] THEN "Duplicate"
    ELSE IF message.topic # topic THEN "NotSubscribed"
    ELSE "Delivered"

\* What gossipsub does with a message frame, in the order it decides it.
Outcome(n, from, message) ==
    IF ~ValidSignature(message) THEN "InvalidSignature"
    ELSE IF message.source = n THEN "SelfOrigin"
    ELSE IF message_id_fn(message) \in duplicate_cache[n] THEN "Duplicate"
    ELSE IF message.topic # topic THEN "NotSubscribed"
    ELSE "Delivered"

\* Event::Message as gossipsub would build it for unsigned messages
\* (MessageAuthenticity::Anonymous): without the author.
MessageEvent_Anonymous(from, id, message) ==
    [propagation_source |-> from, message_id |-> id,
     message |-> [message EXCEPT !.source = "none"]]

\* gossipsub::Event::Message { propagation_source, message_id, message }.
MessageEvent(from, id, message) ==
    [propagation_source |-> from, message_id |-> id, message |-> message]

\* ReceiveMessage that looks the id up in the duplicate cache in this step but leaves
\* the insertion of a delivered id for later.
ReceiveMessage_LateInsert(n, f) ==
    LET message == f.body
        id == message_id_fn(message)
        outcome == Outcome(n, f.from, message)
        recipients == IF outcome = "Delivered"
                      THEN ForwardRecipients(n, message, f.from) ELSE {}
    IN  /\ pc[n] = "loop"
        /\ f \in net /\ f.to = n /\ f.body.kind = "msg"
        /\ Cardinality(net) - 1 + Cardinality(recipients) <= MaxInFlight
        /\ duplicate_cache' =
              IF outcome = "NotSubscribed"
              THEN [duplicate_cache EXCEPT ![n] = @ \cup {id}]
              ELSE duplicate_cache
        /\ delivered' =
              IF outcome = "Delivered"
              THEN [delivered EXCEPT ![n] = Append(@, MessageEvent(f.from, id, message))]
              ELSE delivered
        /\ net' = (net \ {f}) \cup Frames(n, recipients, message)
        /\ last' = [op |-> "Receive", node |-> n, from |-> f.from, id |-> id,
                    outcome |-> outcome, author |-> message.source]
        /\ UNCHANGED <<pc, explicit_peers, peer_topics, mesh, seqno, conn, lastDisc,
                       expiries, budget, heard, stdin>>

\* A swarm event of a received message: gossipsub validates it, looks its id up in the
\* duplicate cache, hands Event::Message to main(), which logs it, and forwards it.
ReceiveMessage(n, f) ==
    LET message == f.body
        id == message_id_fn(message)
        outcome == Outcome(n, f.from, message)
        recipients == IF outcome = "Delivered"
                      THEN ForwardRecipients(n, message, f.from) ELSE {}
    IN  /\ pc[n] = "loop"
        /\ f \in net /\ f.to = n /\ f.body.kind = "msg"
        /\ Cardinality(net) - 1 + Cardinality(recipients) <= MaxInFlight
        /\ duplicate_cache' =
              IF outcome \in {"NotSubscribed", "Delivered"}
              THEN [duplicate_cache EXCEPT ![n] = @ \cup {id}]
              ELSE duplicate_cache
        /\ delivered' =
              IF outcome = "Delivered"
              THEN [delivered EXCEPT ![n] = Append(@, MessageEvent(f.from, id, message))]
              ELSE delivered
        /\ net' = (net \ {f}) \cup Frames(n, recipients, message)
        /\ last' = [op |-> "Receive", node |-> n, from |-> f.from, id |-> id,
                    outcome |-> outcome, author |-> message.source]
        /\ UNCHANGED <<pc, explicit_peers, peer_topics, mesh, seqno, conn, lastDisc,
                       expiries, budget, heard, stdin>>

\* The subscription a peer sends when the connection to it is established (or again
\* after an unsubscription) arrives: gossipsub records it, takes the peer into the mesh
\* at once when the mesh is below the low watermark and sends it a GRAFT, and main()
\* logs Event::Subscribed. It is in flight while the connected peer is not recorded.
ReceiveSubscribe(n, p) ==
    LET join == /\ p \notin explicit_peers[n]
                /\ p \notin mesh[n]
                /\ Cardinality(mesh[n]) < mesh_n_low
    IN  /\ pc[n] = "loop"
        /\ Connected(n, p)
        /\ p \notin peer_topics[n]
        /\ join => Cardinality(net) + 1 <= MaxInFlight
        /\ peer_topics' = [peer_topics EXCEPT ![n] = @ \cup {p}]
        /\ mesh' = IF join THEN [mesh EXCEPT ![n] = @ \cup {p}] ELSE mesh
        /\ net' = net \cup (IF join THEN {Frame(n, p, Control("graft"))} ELSE {})
        /\ last' = [op |-> "Subscribed"]
        /\ UNCHANGED <<pc, explicit_peers, duplicate_cache, seqno, conn, delivered,
                       lastDisc, expiries, budget, heard, stdin>>

\* ReceiveUnsubscribe that leaves the peer in the mesh.
ReceiveUnsubscribe_KeepsMesh(n, p) ==
    /\ pc[n] = "loop"
    /\ pc[p] = "foreign"
    /\ Connected(n, p)
    /\ p \in peer_topics[n]
    /\ budget > 0
    /\ peer_topics' = [peer_topics EXCEPT ![n] = @ \ {p}]
    /\ budget' = budget - 1
    /\ last' = [op |-> "Unsubscribed", node |-> n, inMesh |-> p \in mesh[n]]
    /\ UNCHANGED <<pc, explicit_peers, mesh, duplicate_cache, seqno, conn, net,
                   delivered, lastDisc, expiries, heard, stdin>>

\* The unsubscription of a peer arrives (the program never unsubscribes; a foreign
\* peer may): gossipsub forgets the subscription and removes the peer from the mesh;
\* main() ignores Event::Unsubscribed.
ReceiveUnsubscribe(n, p) ==
    /\ pc[n] = "loop"
    /\ pc[p] = "foreign"
    /\ Connected(n, p)
    /\ p \in peer_topics[n]
    /\ budget > 0
    /\ peer_topics' = [peer_topics EXCEPT ![n] = @ \ {p}]
    /\ mesh' = [mesh EXCEPT ![n] = @ \ {p}]
    /\ budget' = budget - 1
    /\ last' = [op |-> "Unsubscribed", node |-> n, inMesh |-> p \in mesh[n]]
    /\ UNCHANGED <<pc, explicit_peers, duplicate_cache, seqno, conn, net, delivered,
                   lastDisc, expiries, heard, stdin>>

\* A GRAFT arrives: the sender is subscribed; gossipsub takes it into the mesh unless
\* it is an explicit peer or the mesh is full, and answers PRUNE when it refuses.
ReceiveGraft(n, f) ==
    LET p == f.from
        refuse == /\ p \notin mesh[n]
                  /\ (p \in explicit_peers[n] \/ Cardinality(mesh[n]) >= mesh_n_high)
    IN  /\ pc[n] = "loop"
        /\ f \in net /\ f.to = n /\ f.body.kind = "graft"
        /\ peer_topics' = [peer_topics EXCEPT ![n] = @ \cup {p}]
        /\ mesh' = IF refuse THEN mesh ELSE [mesh EXCEPT ![n] = @ \cup {p}]
        /\ net' = (net \ {f}) \cup (IF refuse THEN {Frame(n, p, Control("prune"))} ELSE {})
        /\ last' = [op |-> "Graft"]
        /\ UNCHANGED <<pc, explicit_peers, duplicate_cache, seqno, conn, delivered,
                       lastDisc, expiries, budget, heard, stdin>>

\* ReceivePrune that also stops treating the sender as an explicit peer.
ReceivePrune_DropsExplicit(n, f) ==
    /\ pc[n] = "loop"
    /\ f \in net /\ f.to = n /\ f.body.kind = "prune"
    /\ mesh' = [mesh EXCEPT ![n] = @ \ {f.from}]
    /\ explicit_peers' = [explicit_peers EXCEPT ![n] = @ \ {f.from}]
    /\ net' = net \ {f}
    /\ last' = [op |-> "Prune"]
    /\ UNCHANGED <<pc, peer_topics, duplicate_cache, seqno, conn, delivered, lastDisc,
                   expiries, budget, heard, stdin>>

\* A PRUNE arrives: gossipsub removes the sender from the mesh.
ReceivePrune(n, f) ==
    LET p == f.from
    IN  /\ pc[n] = "loop"
        /\ f \in net /\ f.to = n /\ f.body.kind = "prune"
        /\ mesh' = [mesh EXCEPT ![n] = @ \ {p}]
        /\ net' = net \ {f}
        /\ last' = [op |-> "Prune"]
        /\ UNCHANGED <<pc, explicit_peers, peer_topics, duplicate_cache, seqno, conn,
                       delivered, lastDisc, expiries, budget, heard, stdin>>

\* The peers the heartbeat may graft: subscribed, connected, not in the mesh and not
\* explicit.
GraftCandidates(n) ==
    {p \in ConnectedPeers(n) :
        p \in peer_topics[n] /\ p \notin mesh[n] /\ p \notin explicit_peers[n]}

\* The heartbeat (every 10 s): below the low watermark it grafts candidates up to the
\* target size, above the high watermark it prunes down to the target size. A
\* heartbeat with nothing to graft or prune changes nothing and is a stuttering step.
Heartbeat(n) ==
    /\ pc[n] = "loop"
    /\ \E grafted \in SUBSET GraftCandidates(n), pruned \in SUBSET mesh[n] :
          /\ grafted \cup pruned # {}
          /\ IF Cardinality(mesh[n]) < mesh_n_low
             THEN /\ Cardinality(grafted) =
                        Min(mesh_n - Cardinality(mesh[n]), Cardinality(GraftCandidates(n)))
                  /\ pruned = {}
             ELSE IF Cardinality(mesh[n]) > mesh_n_high
             THEN /\ grafted = {}
                  /\ Cardinality(pruned) = Cardinality(mesh[n]) - mesh_n
             ELSE grafted = {} /\ pruned = {}
          /\ Cardinality(net) + Cardinality(grafted) + Cardinality(pruned) <= MaxInFlight
          /\ mesh' = [mesh EXCEPT ![n] = (@ \cup grafted) \ pruned]
          /\ net' = net \cup Frames(n, grafted, Control("graft"))
                        \cup Frames(n, pruned, Control("prune"))
          /\ last' = [op |-> "Heartbeat", node |-> n]
    /\ UNCHANGED <<pc, explicit_peers, peer_topics, duplicate_cache, seqno, conn,
                   delivered, lastDisc, expiries, budget, heard, stdin>>

\* A connection is established (gossipsub dials its explicit peers, a foreign peer
\* may dial by itself); each side then sends the other its subscription.
Connect(a, b) ==
    /\ a # b
    /\ pc[a] = "loop"
    /\ pc[b] \in {"loop", "foreign"}
    /\ ~Connected(a, b)
    /\ b \in explicit_peers[a] \/ pc[b] = "foreign"
    /\ conn' = conn \cup {{a, b}}
    /\ last' = [op |-> "Connect"]
    /\ UNCHANGED <<pc, explicit_peers, peer_topics, mesh, duplicate_cache, seqno, net,
                   delivered, lastDisc, expiries, budget, heard, stdin>>

\* Disconnect that leaves the peers in each other's mesh until the next heartbeat.
Disconnect_KeepsMesh(a, b) ==
    /\ a # b
    /\ Connected(a, b)
    /\ budget > 0
    /\ conn' = conn \ {{a, b}}
    /\ peer_topics' = [peer_topics EXCEPT ![a] = @ \ {b}, ![b] = @ \ {a}]
    /\ net' = {f \in net : {f.from, f.to} # {a, b}}
    /\ budget' = budget - 1
    /\ last' = [op |-> "Disconnect", node |-> a, peer |-> b,
                inMesh |-> b \in mesh[a] \/ a \in mesh[b]]
    /\ UNCHANGED <<pc, explicit_peers, mesh, duplicate_cache, seqno, delivered, lastDisc,
                   expiries, heard, stdin>>

\* A connection closes: each side forgets the other's subscription and removes it from
\* the mesh; what was in flight on the connection is lost.
Disconnect(a, b) ==
    /\ a # b
    /\ Connected(a, b)
    /\ budget > 0
    /\ conn' = conn \ {{a, b}}
    /\ peer_topics' = [peer_topics EXCEPT ![a] = @ \ {b}, ![b] = @ \ {a}]
    /\ mesh' = [mesh EXCEPT ![a] = @ \ {b}, ![b] = @ \ {a}]
    /\ net' = {f \in net : {f.from, f.to} # {a, b}}
    /\ budget' = budget - 1
    /\ last' = [op |-> "Disconnect", node |-> a, peer |-> b,
                inMesh |-> b \in mesh[a] \/ a \in mesh[b]]
    /\ UNCHANGED <<pc, explicit_peers, duplicate_cache, seqno, delivered, lastDisc,
                   expiries, heard, stdin>>

\* Time passes: an id leaves the duplicate cache.
Expire(n, id) ==
    /\ pc[n] = "loop"
    /\ id \in duplicate_cache[n]
    /\ budget > 0
    /\ duplicate_cache' = [duplicate_cache EXCEPT ![n] = @ \ {id}]
    /\ expiries' = [expiries EXCEPT ![n][id] = @ + 1]
    /\ budget' = budget - 1
    /\ last' = [op |-> "Expire"]
    /\ UNCHANGED <<pc, explicit_peers, peer_topics, mesh, seqno, conn, net, delivered,
                   lastDisc, heard, stdin>>

\* What a foreign peer c may send: a message of its own on the topic; one on another
\* topic; a message it signs in another's name; a message of another foreign peer that
\* it relays; a message it has received; a GRAFT or a PRUNE.
ForeignBodies(c) ==
    {Sign(c, d, topic, 0) : d \in Lines}
    \cup {Sign(c, hello, "other", 0)}
    \cup {[kind |-> "msg", source |-> s, sig |-> c, seqno |-> 0, data |-> hello,
           topic |-> topic] : s \in Nodes \ {c}}
    \cup {Sign(s, hello, topic, 0) : s \in {x \in Nodes \ {c} : pc[x] = "foreign"}}
    \cup {f.body : f \in heard}
    \cup {Control("graft"), Control("prune")}

\* A foreign peer sends a frame to a program it is connected to.
ForeignSend(c, to, body) ==
    /\ pc[c] = "foreign" /\ pc[to] = "loop"
    /\ Connected(c, to)
    /\ budget > 0
    /\ Cardinality(net) + 1 <= MaxInFlight
    /\ net' = net \cup {Frame(c, to, body)}
    /\ budget' = budget - 1
    /\ last' = [op |-> "ForeignSend"]
    /\ UNCHANGED <<pc, explicit_peers, peer_topics, mesh, duplicate_cache, seqno, conn,
                   delivered, lastDisc, expiries, heard, stdin>>

\* A foreign peer receives a frame.
ForeignReceive(c, f) ==
    /\ pc[c] = "foreign"
    /\ f \in net /\ f.to = c
    /\ net' = net \ {f}
    /\ heard' = IF f.body.kind = "msg" THEN heard \cup {f} ELSE heard
    /\ last' = [op |-> "ForeignReceive"]
    /\ UNCHANGED <<pc, explicit_peers, peer_topics, mesh, duplicate_cache, seqno, conn,
                   delivered, lastDisc, expiries, budget, stdin>>

\* -------------------------------------------------------------------- Next
Next ==
    \/ \E n \in Nodes : Start(n)
    \/ \E n \in Nodes : StartFail(n)
    \/ \E n \in Nodes, line \in Lines : Publish(n, line)
    \/ \E n \in Nodes : \E list \in MdnsLists(n) : MdnsDiscovered(n, list)
    \/ \E n \in Nodes : \E list \in MdnsLists(n) : MdnsExpired(n, list)
    \/ \E n \in Nodes : \E f \in net : ReceiveMessage(n, f)
    \/ \E n \in Nodes, p \in Nodes : ReceiveSubscribe(n, p)
    \/ \E n \in Nodes, p \in Nodes : ReceiveUnsubscribe(n, p)
    \/ \E n \in Nodes : \E f \in net : ReceiveGraft(n, f)
    \/ \E n \in Nodes : \E f \in net : ReceivePrune(n, f)
    \/ \E n \in Nodes : Heartbeat(n)
    \/ \E a \in Nodes, b \in Nodes : Connect(a, b)
    \/ \E a \in Nodes, b \in Nodes : Disconnect(a, b)
    \/ \E n \in Nodes, id \in Ids : Expire(n, id)
    \/ \E c \in Nodes, to \in Nodes : \E body \in ForeignBodies(c) : ForeignSend(c, to, body)
    \/ \E c \in Nodes : \E f \in net : ForeignReceive(c, f)

Spec == Init /\ [][Next]_vars

\* Two programs, A and B, on one segment, and no other peer.
PairInit ==
    /\ pc = [n \in Nodes |-> IF n = "C" THEN "off" ELSE "start"]
    /\ explicit_peers = [n \in Nodes |-> {}]
    /\ peer_topics = [n \in Nodes |-> {}]
    /\ mesh = [n \in Nodes |-> {}]
    /\ duplicate_cache = [n \in Nodes |-> {}]
    /\ seqno = [n \in Nodes |-> 0]
    /\ conn = {}
    /\ net = {}
    /\ delivered = [n \in Nodes |-> <<>>]
    /\ lastDisc = [n \in Nodes |-> [p \in Nodes |-> "none"]]
    /\ expiries = [n \in Nodes |-> [i \in Ids |-> 0]]
    /\ budget = MaxPairEvents
    /\ heard = {}
    /\ stdin = [n \in Nodes |-> <<>>]
    /\ last = [op |-> "Init"]

\* The loop of n handles a message that has arrived.
MessageEventStep(n) == \E f \in net : ReceiveMessage(n, f)

PairNext ==
    \/ \E n \in Nodes : Start(n)
    \/ \E n \in Nodes : StartFail(n)
    \/ \E n \in Nodes, line \in Lines : Publish(n, line)
    \/ \E n \in Nodes : \E list \in MdnsLists(n) : MdnsDiscovered(n, list)
    \/ \E n \in Nodes : \E list \in MdnsLists(n) : MdnsExpired(n, list)
    \/ \E n \in Nodes : MessageEventStep(n)
    \/ \E n \in Nodes, p \in Nodes : ReceiveSubscribe(n, p)
    \/ \E n \in Nodes : \E f \in net : ReceiveGraft(n, f)
    \/ \E n \in Nodes : \E f \in net : ReceivePrune(n, f)
    \/ \E n \in Nodes : Heartbeat(n)
    \/ \E a \in Nodes, b \in Nodes : Connect(a, b)
    \/ \E a \in Nodes, b \in Nodes : Disconnect(a, b)
    \/ \E n \in Nodes, id \in Ids : Expire(n, id)

\* The loop of main() polls the swarm in every iteration: a message that has arrived
\* stays ready until it is handled, and is handled.
PairSpec ==
    PairInit /\ [][PairNext]_vars /\ \A n \in Nodes : WF_vars(MessageEventStep(n))

\* ---------------------------------------------------------------- the loop
\* The lines waiting on the terminal of n.
NumLines(n) == Cardinality({i \in DOMAIN stdin[n] : stdin[n][i].kind = "Some"})

\* The input of n has ended: next_line() yields Ok(None) from then on.
Closed(n) == stdin[n] # <<>> /\ stdin[n][Len(stdin[n])] = NoLine

\* A line is typed at the terminal of n and waits to be read.
TypeLine(n, line) ==
    /\ pc[n] = "loop"
    /\ ~Closed(n)
    /\ Len(stdin[n]) < MaxTyped
    /\ NumLines(n) < budget
    /\ stdin' = [stdin EXCEPT ![n] = Append(@, SomeLine(line))]
    /\ last' = [op |-> "TypeLine"]
    /\ UNCHANGED <<pc, explicit_peers, peer_topics, mesh, duplicate_cache, seqno, conn,
                   net, delivered, lastDisc, expiries, budget, heard>>

\* Bytes that next_line() cannot read as a line arrive at the terminal of n.
TypeError(n) ==
    /\ pc[n] = "loop"
    /\ ~Closed(n)
    /\ Len(stdin[n]) < MaxTyped
    /\ stdin' = [stdin EXCEPT ![n] = Append(@, ErrLine)]
    /\ last' = [op |-> "TypeError"]
    /\ UNCHANGED <<pc, explicit_peers, peer_topics, mesh, duplicate_cache, seqno, conn,
                   net, delivered, lastDisc, expiries, budget, heard>>

\* The input of n ends.
CloseStdin(n) ==
    /\ pc[n] = "loop"
    /\ ~Closed(n)
    /\ Len(stdin[n]) < MaxTyped
    /\ stdin' = [stdin EXCEPT ![n] = Append(@, NoLine)]
    /\ last' = [op |-> "CloseStdin"]
    /\ UNCHANGED <<pc, explicit_peers, peer_topics, mesh, duplicate_cache, seqno, conn,
                   net, delivered, lastDisc, expiries, budget, heard>>

\* StdinBranch as `biased;` with the swarm branch first would make it: taken only
\* when no swarm event is ready.
StdinBranch_Biased(n) ==
    /\ \A f \in net : f.to # n
    /\ stdin[n] # <<>>
    /\ \E line \in Lines : Publish(n, line)

\* One iteration of the loop that takes the stdin branch: Ok(Some(line)) matches.
StdinBranch(n) ==
    /\ stdin[n] # <<>>
    /\ \E line \in Lines : Publish(n, line)

\* StdinError where main() leaves the loop on a read error.
StdinError_Exits(n) ==
    /\ pc[n] = "loop"
    /\ stdin[n] # <<>> /\ Head(stdin[n]) = ErrLine
    /\ stdin' = [stdin EXCEPT ![n] = Tail(@)]
    /\ pc' = [pc EXCEPT ![n] = "exit"]
    /\ last' = [op |-> "StdinError", node |-> n]
    /\ UNCHANGED <<explicit_peers, peer_topics, mesh, duplicate_cache, seqno, conn,
                   net, delivered, lastDisc, expiries, budget, heard>>

\* next_line() yields Err(e): the pattern Ok(Some(line)) does not match, the branch
\* is disabled for this iteration and nothing is published. (Ok(None), at the end of
\* the input, does not match either and changes nothing: a stuttering step.)
StdinError(n) ==
    /\ pc[n] = "loop"
    /\ stdin[n] # <<>> /\ Head(stdin[n]) = ErrLine
    /\ stdin' = [stdin EXCEPT ![n] = Tail(@)]
    /\ last' = [op |-> "StdinError", node |-> n]
    /\ UNCHANGED <<pc, explicit_peers, peer_topics, mesh, duplicate_cache, seqno, conn,
                   net, delivered, lastDisc, expiries, budget, heard>>

\* A foreign peer that keeps publishing the same lines sends one to a program.
ForeignChatter(c, to, line) ==
    /\ pc[c] = "foreign" /\ pc[to] = "loop"
    /\ Connected(c, to)
    /\ Cardinality(net) + 1 <= MaxInFlight
    /\ net' = net \cup {Frame(c, to, Sign(c, line, topic, 0))}
    /\ last' = [op |-> "ForeignSend"]
    /\ UNCHANGED <<pc, explicit_peers, peer_topics, mesh, duplicate_cache, seqno, conn,
                   delivered, lastDisc, expiries, budget, heard, stdin>>

\* A foreign peer reads what has arrived for it.
ForeignReceiveStep(c) == \E f \in net : ForeignReceive(c, f)

\* One program, B, with a terminal, and one foreign peer, A.
LoopPrograms == {"B"}
LoopForeign == {"A"}

\* The frames the foreign peers send to n.
ChatterFrames(n) ==
    {Frame(c, n, Sign(c, line, topic, 0)) : c \in LoopForeign, line \in Lines}

LoopInit ==
    /\ pc = [n \in Nodes |-> IF n \in LoopPrograms THEN "start"
                              ELSE IF n \in LoopForeign THEN "foreign" ELSE "off"]
    /\ explicit_peers = [n \in Nodes |-> {}]
    /\ peer_topics = [n \in Nodes |-> {}]
    /\ mesh = [n \in Nodes |-> {}]
    /\ duplicate_cache = [n \in Nodes |-> {}]
    /\ seqno = [n \in Nodes |-> 0]
    /\ conn = {}
    /\ net = {}
    /\ delivered = [n \in Nodes |-> <<>>]
    /\ lastDisc = [n \in Nodes |-> [p \in Nodes |-> "none"]]
    /\ expiries = [n \in Nodes |-> [i \in Ids |-> 0]]
    /\ budget = MaxEvents
    /\ heard = {}
    /\ stdin = [n \in Nodes |-> <<>>]
    /\ last = [op |-> "Init"]

LoopNext ==
    \/ \E n \in Nodes : Start(n)
    \/ \E n \in Nodes : StartFail(n)
    \/ \E n \in Nodes, line \in Lines : TypeLine(n, line)
    \/ \E n \in Nodes : TypeError(n)
    \/ \E n \in Nodes : CloseStdin(n)
    \/ \E n \in Nodes : StdinBranch(n)
    \/ \E n \in Nodes : StdinError(n)
    \/ \E n \in Nodes : MessageEventStep(n)
    \/ \E n \in Nodes, p \in Nodes : ReceiveSubscribe(n, p)
    \/ \E a \in Nodes, b \in Nodes : Connect(a, b)
    \/ \E c \in Nodes, to \in Nodes, line \in Lines : ForeignChatter(c, to, line)
    \/ \E c \in Nodes : ForeignReceiveStep(c)

\* tokio::select! without `biased;` starts polling at a branch chosen at random in
\* every iteration: a branch that is ready again and again is taken (strong fairness
\* of the stdin branch, which here must also find room on the network), and what
\* has arrived on a connection is handled in its turn; the foreign peer reads what
\* is sent to it.
LoopSpec ==
    /\ LoopInit /\ [][LoopNext]_vars
    /\ \A n \in LoopPrograms :
          /\ SF_vars(StdinBranch(n))
          /\ WF_vars(StdinError(n))
          /\ \A f \in ChatterFrames(n) : WF_vars(ReceiveMessage(n, f))
    /\ \A c \in LoopForeign : WF_vars(ForeignReceiveStep(c))

\* ------------------------------------------------------------------ claims
\* The message frames addressed to n that a step takes from the network (a frame
\* that goes with the close of its connection is lost, not taken).
Taken(n) ==
    {f \in net : /\ f \notin net' /\ f.to = n /\ f.body.kind = "msg"
                 /\ Connected(f.from, n)'}

\* A step sends nothing in the name of n.
SendsNothing(n) == SentBy(n, net') \subseteq SentBy(n, net)

\* How often n has delivered a message with this id to main().
Deliveries(n, id) ==
    Cardinality({i \in DOMAIN delivered[n] : delivered[n][i].message_id = id})

\* C1: a node that takes a message whose id is in its duplicate cache neither
\* delivers it to the application nor forwards it, whichever peer it comes from; so
\* an id is delivered at most once for each time it has been in the cache.
C1_DuplicateSuppressed ==
    /\ [][\A n \in Nodes : \A f \in Taken(n) :
             message_id_fn(f.body) \in duplicate_cache[n]
                => delivered'[n] = delivered[n] /\ SendsNothing(n)]_vars
    /\ [](\A n \in Nodes : \A id \in Ids : Deliveries(n, id) <= expiries[n][id] + 1)

\* C1 witness: a node has just suppressed a duplicate of a message it delivered
\* before, which came from a different peer.
C1_Witness ==
    /\ last.op = "Receive" /\ last.outcome = "Duplicate"
    /\ \E i \in DOMAIN delivered[last.node] :
          /\ delivered[last.node][i].message_id = last.id
          /\ delivered[last.node][i].propagation_source # last.from

\* C2: the frames a node sends when it takes a message from peer X never go to X.
C2_NoEcho ==
    [][\A n \in Nodes : \A f \in Taken(n) :
          \A g \in net' \ net : g.from = n => g.to # f.from]_vars

\* C2 witness: a node has just delivered a message and forwarded it to another peer.
C2_Witness ==
    /\ last.op = "Receive" /\ last.outcome = "Delivered"
    /\ \E g \in net : /\ g.from = last.node /\ g.to # last.from
                      /\ g.body.kind = "msg" /\ message_id_fn(g.body) = last.id
                      /\ g.body.source # last.node

\* C3: a message whose signature is not its author's, or whose topic the node is not
\* subscribed to, is dropped: not delivered, not forwarded, and the node goes on; no
\* delivered message and no frame sent by a program has a bad signature.
C3_InvalidDropped ==
    /\ [][\A n \in Nodes : \A f \in Taken(n) :
             (f.body.sig # f.body.source \/ f.body.topic # topic)
                => delivered'[n] = delivered[n] /\ SendsNothing(n) /\ pc' = pc]_vars
    /\ [](\A n \in Nodes :
             /\ \A i \in DOMAIN delivered[n] :
                   /\ delivered[n][i].message.sig = delivered[n][i].message.source
                   /\ delivered[n][i].message.topic = topic
             /\ pc[n] # "foreign" =>
                   \A g \in SentBy(n, net \cup heard) :
                       g.body.kind = "msg" => g.body.sig = g.body.source)

\* C3 witness: a node with another peer to forward to has just dropped a message
\* with a bad signature.
C3_Witness ==
    /\ last.op = "Receive" /\ last.outcome = "InvalidSignature"
    /\ \E p \in ConnectedPeers(last.node) \ {last.from} :
          p \in peer_topics[last.node]
          /\ (p \in mesh[last.node] \/ p \in explicit_peers[last.node])

\* C5: a publish of a payload whose id is in the duplicate cache sends nothing and
\* leaves the duplicate cache and the mesh as they are.
C5_DuplicatePublishNoOp ==
    [][\A n \in Nodes :
          (last'.op = "Publish" /\ last'.node = n /\ seqno'[n] = seqno[n] + 1
              /\ last'.id \in duplicate_cache[n])
             => net' = net /\ duplicate_cache' = duplicate_cache /\ mesh' = mesh]_vars

\* C5 witness: a node has just published a payload a second time and got
\* Err(Duplicate), with a peer to send to.
C5_Witness ==
    /\ last.op = "Publish" /\ last.result = "Duplicate"
    /\ PublishRecipients(last.node) # {}

\* The peers n forwards messages to: its connected, subscribed explicit and mesh peers.
ForwardingSet(n) ==
    {p \in ConnectedPeers(n) :
        p \in peer_topics[n] /\ (p \in explicit_peers[n] \/ p \in mesh[n])}

\* An explicit peer of n that a step takes out of n's forwarding set.
LosesExplicit(n, p) ==
    /\ p \in explicit_peers[n]
    /\ p \in ForwardingSet(n)
    /\ p \notin ForwardingSet(n)'

C8_ExplicitTracksDiscovery ==
    \A n \in Nodes : \A p \in Nodes :
        p \in explicit_peers[n] <=> lastDisc[n][p] = "Discovered"

\* C8 witness: after a Discovered event and an Expired event, one peer is explicit
\* and another has lost the flag.
C8_Witness ==
    /\ last.op = "Expired"
    /\ \E p \in Nodes, q \in Nodes :
          /\ lastDisc[last.node][p] = "Expired" /\ p \notin explicit_peers[last.node]
          /\ lastDisc[last.node][q] = "Discovered" /\ q \in explicit_peers[last.node]

\* C9: every peer in the mesh is connected and recorded as subscribed to the topic.
C9_MeshSubscribed ==
    \A n \in Nodes : mesh[n] \subseteq (peer_topics[n] \cap ConnectedPeers(n))

\* C9 witness: a peer that was in the mesh has just unsubscribed, and another peer
\* is in the mesh.
C9_Witness ==
    /\ last.op = "Unsubscribed" /\ last.inMesh
    /\ mesh[last.node] # {}

\* C10 as stated: every step other than a heartbeat leaves the mesh unchanged.
C10_Original ==
    [][last'.op # "Heartbeat" => mesh' = mesh]_vars

\* C10 as amended: a publish, the receipt of a message and the mDNS events leave the
\* mesh unchanged.
C10_MeshFrame ==
    [][last'.op \in {"Publish", "Receive", "Discovered", "Expired"} => mesh' = mesh]_vars

\* C10 witness: an mDNS Expired event has just been handled for a peer in the mesh.
C10_Witness ==
    /\ last.op = "Expired"
    /\ \E p \in mesh[last.node] : lastDisc[last.node][p] = "Expired"

HelloId == message_id_fn(Sign("A", hello, topic, 0))

\* B's application has received "hello" with A as its author.
HelloAtB ==
    \E i \in DOMAIN delivered["B"] :
        /\ delivered["B"][i].message.data = hello
        /\ delivered["B"][i].message.source = "A"

\* A and B have started and each has handled the mDNS discovery of the other.
DiscoveredEachOther ==
    /\ pc["A"] = "loop" /\ pc["B"] = "loop"
    /\ "B" \in explicit_peers["A"] /\ "A" \in explicit_peers["B"]

\* C4 as stated, for the finished publish: once A, having discovered B and been
\* discovered by it, has published "hello" and nothing is in flight to B, B's
\* application has received "hello" exactly once, from A.
C4_Original ==
    (/\ DiscoveredEachOther
     /\ last.op = "Publish" /\ last.node = "A" /\ last.id = HelloId
     /\ \A f \in net : f.to # "B")
       => HelloAtB /\ Deliveries("B", HelloId) = 1

\* C4 as amended: when A's publish of "hello" succeeds (A is connected to B and has
\* its subscription) and B has not recorded the id, then B's application receives
\* "hello" with author A, or the connection closes, or B records the id by itself
\* first; a message B takes from A whose id it has not recorded is handed to the
\* application with A as propagation source and author; and B receives the id at
\* most once for each time it has been in the cache.
C4_EndToEnd ==
    /\ (/\ last.op = "Publish" /\ last.node = "A" /\ last.id = HelloId
        /\ last.result = "Ok" /\ HelloId \notin duplicate_cache["B"])
          ~> (HelloAtB \/ ~Connected("A", "B") \/ HelloId \in duplicate_cache["B"])
    /\ [][\A f \in Taken("B") :
             (/\ f.from = "A" /\ f.body.source = "A" /\ f.body.sig = "A"
              /\ f.body.topic = topic
              /\ message_id_fn(f.body) \notin duplicate_cache["B"])
                => delivered'["B"] =
                      Append(delivered["B"],
                             [propagation_source |-> "A",
                              message_id |-> message_id_fn(f.body),
                              message |-> f.body])]_vars
    /\ [](Deliveries("B", HelloId) <= expiries["B"][HelloId] + 1)

\* C4 witness: B's application has just received "hello" from A, once.
C4_Witness ==
    /\ last.op = "Receive" /\ last.node = "B" /\ last.outcome = "Delivered"
    /\ last.id = HelloId /\ last.from = "A"
    /\ HelloAtB /\ Deliveries("B", HelloId) = 1
    /\ DiscoveredEachOther

\* C11: the step that closes a connection takes each of the two peers out of the
\* other's mesh; every frame in flight travels on an open connection, and a step
\* sends frames only to connected peers.
C11_DisconnectLeavesMesh ==
    /\ [][\A a \in Nodes : \A b \in Nodes :
             (Connected(a, b) /\ ~Connected(a, b)')
                => b \notin mesh'[a] /\ a \notin mesh'[b]]_vars
    /\ [][\A g \in net' \ net : Connected(g.from, g.to)']_vars
    /\ [](\A f \in net : Connected(f.from, f.to))

\* C11 witness: the connection to a peer of the mesh has just closed while another
\* peer is still connected.
C11_Witness ==
    /\ last.op = "Disconnect" /\ last.inMesh
    /\ \E n \in {last.node, last.peer} : pc[n] = "loop" /\ ConnectedPeers(n) # {}

\* What n holds about peer p: the explicit flag, the subscription, the mesh membership.
Registered(n, p) ==
    p \in explicit_peers[n] \/ p \in peer_topics[n] \/ p \in mesh[n]

C13_PublishErrorNonFatal ==
    /\ [][(last'.op = "Publish" /\ seqno' # seqno /\ last'.result # "Ok")
             => /\ pc' = pc
                /\ UNCHANGED <<explicit_peers, peer_topics, mesh, duplicate_cache, conn,
                               net, delivered>>]_vars
    /\ []((last.op = "Publish" /\ last.result # "Ok") => pc[last.node] = "loop")

\* C13 witness: a publish has just failed with Err(InsufficientPeers) on a node that
\* has an explicit peer and an open connection, but no subscription of a peer yet.
C13_Witness ==
    /\ last.op = "Publish" /\ last.result = "InsufficientPeers"
    /\ explicit_peers[last.node] # {}
    /\ ConnectedPeers(last.node) # {}
    /\ pc[last.node] = "loop"

\* A node on which nothing has been published, handled, connected or sent.
Untouched(n) ==
    /\ seqno[n] = 0 /\ delivered[n] = <<>>
    /\ explicit_peers[n] = {} /\ peer_topics[n] = {} /\ mesh[n] = {}
    /\ duplicate_cache[n] = {}
    /\ \A p \in Nodes : lastDisc[n][p] = "none"
    /\ ConnectedPeers(n) = {}
    /\ SentBy(n, net \cup heard) = {}

\* C14: a failure before the loop ends main() with an error; a node that has ended so
\* never enters the loop, and on a node that has not entered the loop no line has
\* been published and no event handled.
C14_StartupErrorFatal ==
    /\ [][\A n \in Nodes :
             (last'.op = "StartFail" /\ pc[n] = "start" /\ pc'[n] # "start")
                => pc'[n] = "exit"]_vars
    /\ [][\A n \in Nodes : pc[n] = "exit" => pc'[n] = "exit"]_vars
    /\ [](\A n \in Nodes : pc[n] \in {"start", "exit"} => Untouched(n))

\* C14 witness: one node has ended with a startup error while the other is in its
\* loop and has handled a line typed at its terminal.
C14_Witness ==
    \E n \in Nodes, m \in Nodes :
        /\ pc[n] = "exit" /\ Untouched(n)
        /\ pc[m] = "loop" /\ seqno[m] > 0

\* C15: a step of the loop reads at most one input from the terminal or takes at
\* most one message from the swarm, never both, and publishes and delivers at most
\* one message; a line waiting on the terminal is published and a message that has
\* arrived is handled, however long the other source stays ready.
C15_LoopFair ==
    /\ [][\A n \in Nodes :
             /\ Len(stdin[n]) - Len(stdin'[n]) <= 1
             /\ Cardinality(Taken(n)) <= 1
             /\ ~(Len(stdin'[n]) < Len(stdin[n]) /\ Taken(n) # {})
             /\ seqno'[n] - seqno[n] <= 1
             /\ Len(delivered'[n]) - Len(delivered[n]) <= 1]_vars
    /\ \A n \in LoopPrograms : \A k \in 1..MaxEvents :
          (pc[n] = "loop" /\ seqno[n] + NumLines(n) >= k) ~> (seqno[n] >= k)
    /\ \A n \in LoopPrograms : \A f \in ChatterFrames(n) :
          (pc[n] = "loop" /\ f \in net) ~> (f \notin net)

\* C15 witness: a node that has handled a message from the network has just
\* published a line from its terminal while another message was ready.
C15_Witness ==
    /\ last.op = "Publish"
    /\ delivered[last.node] # <<>>
    /\ \E f \in net : f.to = last.node /\ f.body.kind = "msg"

\* A message frame n does not reject before it looks at the duplicate cache.
Acceptable(n, f) ==
    /\ f.body.sig = f.body.source /\ f.body.source # n /\ f.body.topic = topic

\* C16: the lookup of the id and its insertion are one step: a program that takes an
\* acceptable message whose id is not in its duplicate cache delivers it and has the
\* id in the cache at the end of the same step, and one that takes a message whose
\* id is in the cache delivers and sends nothing; so of two messages with the
\* same payload in flight to a node on two connections, the one taken first is
\* delivered and the other, taken with the id in the cache, is not.
C16_AtomicCheckInsert ==
    [][\A n \in Nodes : \A f \in Taken(n) :
          LET id == message_id_fn(f.body)
          IN  /\ (pc[n] = "loop" /\ Acceptable(n, f) /\ id \notin duplicate_cache[n])
                    => /\ Len(delivered'[n]) = Len(delivered[n]) + 1
                       /\ id \in duplicate_cache'[n]
              /\ id \in duplicate_cache[n]
                    => delivered'[n] = delivered[n] /\ SendsNothing(n)
              /\ delivered'[n] # delivered[n] => id \in duplicate_cache'[n]]_vars

\* C16 witness: of two messages with the same payload in flight to a node on two
\* connections, the node has just delivered one; the other is still in flight.
C16_Witness ==
    /\ last.op = "Receive" /\ last.outcome = "Delivered"
    /\ \E g \in net : /\ g.to = last.node /\ g.from # last.from
                      /\ g.body.kind = "msg" /\ message_id_fn(g.body) = last.id
                      /\ Acceptable(last.node, g)

\* The messages in flight, received by foreign peers or delivered to main().
Messages ==
    {f.body : f \in {g \in net \cup heard : g.body.kind = "msg"}}
    \cup UNION {{delivered[n][i].message : i \in DOMAIN delivered[n]} : n \in Nodes}

\* C17: the id of a message is decided by its payload alone, whoever the author and
\* whatever the sequence number; the id handed to main() is the id of the payload;
\* and a program that takes a message whose payload it has delivered before, from
\* whichever author, with that delivery's id still in its duplicate cache, neither
\* delivers nor forwards it.
C17_IdOfPayload ==
    /\ [](/\ \A d \in Lines :
                Cardinality({message_id_fn(Sign(s, d, tp, q)) :
                                s \in Nodes, tp \in Topics, q \in 0..MaxEvents}) = 1
           /\ \A m1 \in Messages, m2 \in Messages :
                m1.data = m2.data => message_id_fn(m1) = message_id_fn(m2)
           /\ \A n \in Nodes : \A i \in DOMAIN delivered[n] :
                delivered[n][i].message_id = message_id_fn(delivered[n][i].message))
    /\ [][\A n \in Nodes : \A f \in Taken(n) :
             (\E i \in DOMAIN delivered[n] :
                 /\ delivered[n][i].message.data = f.body.data
                 /\ delivered[n][i].message_id \in duplicate_cache[n])
                => delivered'[n] = delivered[n] /\ SendsNothing(n)]_vars

\* C17 witness: a node has just suppressed a message whose payload it had delivered
\* before in a message of another author.
C17_Witness ==
    /\ last.op = "Receive" /\ last.outcome = "Duplicate"
    /\ \E i \in DOMAIN delivered[last.node] :
          /\ delivered[last.node][i].message_id = last.id
          /\ delivered[last.node][i].message.source # last.author
          /\ last.author = last.from

\* C19: a node in the loop stays in the loop, whatever it handles; a read error on
\* the terminal is passed over and the end of the input stays, and neither
\* publishes anything; and with its input at its end the node still handles the
\* messages that arrive.
C19_LoopNeverEnds ==
    /\ [][\A n \in Nodes : pc[n] = "loop" => pc'[n] = "loop"]_vars
    /\ [][\A n \in Nodes :
             (stdin[n] # <<>> /\ Head(stdin[n]) \in {ErrLine, NoLine})
                => /\ seqno'[n] = seqno[n]
                   /\ (Head(stdin[n]) = NoLine) => (stdin'[n] = stdin[n])
                   /\ (Len(stdin'[n]) < Len(stdin[n]) /\ Head(stdin[n]) = ErrLine)
                         => (stdin'[n] = Tail(stdin[n]) /\ net' = net
                               /\ delivered' = delivered)]_vars
    /\ \A n \in LoopPrograms : \A f \in ChatterFrames(n) :
          (pc[n] = "loop" /\ stdin[n] = <<NoLine>> /\ f \in net) ~> (f \notin net)

\* C19 witness: a node whose input has ended, and which had published a line
\* before, has just handled a message from the network.
C19_Witness ==
    /\ last.op = "Receive" /\ last.outcome = "Delivered"
    /\ stdin[last.node] = <<NoLine>>
    /\ seqno[last.node] > 0
    /\ pc[last.node] = "loop"

\* C20: a publish that succeeds has the id of the message in the node's duplicate
\* cache at its end; a node that takes a message of which it is the author, from
\* whichever peer, neither delivers nor forwards it; and no message delivered to
\* main() has the node itself as its author.
C20_NoSelfDelivery ==
    /\ [][\A n \in Nodes :
             (last'.op = "Publish" /\ last'.node = n /\ seqno'[n] # seqno[n]
                 /\ last'.result = "Ok")
                => /\ last'.id \in duplicate_cache'[n]
                   /\ \A g \in net' \ net : g.from = n /\ g.body.source = n]_vars
    /\ [][\A n \in Nodes : \A f \in Taken(n) :
             (pc[n] = "loop" /\ f.body.source = n)
                => delivered'[n] = delivered[n] /\ SendsNothing(n)]_vars
    /\ [](\A n \in Nodes : \A i \in DOMAIN delivered[n] :
             delivered[n][i].message.source # n)

\* C20 witness: a peer has relayed a node's own message back to it while its id is
\* in the duplicate cache, and the node has just dropped it.
C20_Witness ==
    /\ last.op = "Receive" /\ last.author = last.node /\ last.from # last.node
    /\ last.outcome = "SelfOrigin"
    /\ last.id \in duplicate_cache[last.node]
    /\ seqno[last.node] > 0

====
